---- MODULE Spec2Model ----
(***************************************************************************)
(* Model of modern_task_manager.py: the sampler thread (update_thread),    *)
(* the three data sources it calls, the GLib idle queue that carries its   *)
(* snapshots to the GTK main loop, and the handlers that run on the GTK    *)
(* main loop (update_ui, the scroll handlers, the selection, the buttons). *)
(*                                                                         *)
(* Text is a sequence of one-character strings, so that str.split is       *)
(* computed and not assumed. Percentages are integers in tenths of a       *)
(* percent (psutil rounds them to one decimal). Python's None is the       *)
(* value None for a PID and NoneStr for a service name.                    *)
(***************************************************************************)
EXTENDS Integers, Sequences, FiniteSets, TLC

VARIABLES
    pc,                   \* update_thread: the statement the sampler thread is at
    cycle,                \* number of GLib.idle_add calls made so far
    processes,            \* update_thread local
    services,             \* update_thread local
    performance,          \* update_thread local
    idle_queue,           \* GLib idle sources not yet dispatched, oldest first
    process_list,         \* Gtk.ListStore of the processes tab (rows)
    process_sel,          \* treeview selection: row index, 0 = nothing selected
    services_list,        \* Gtk.ListStore of the services tab (rows)
    services_sel,         \* services_treeview selection: row index, 0 = none
    processes_scroll_pos, \* self.processes_scroll_pos
    services_scroll_pos,  \* self.services_scroll_pos
    vadj_process,         \* value of processes_scrolled's vertical adjustment
    vadj_services,        \* value of services_scrolled's vertical adjustment
    upper_process,        \* largest value vadj_process takes (upper - page_size)
    upper_services,       \* largest value vadj_services takes (upper - page_size)
    perf_labels,          \* texts of the performance tab
    status_bar,           \* top message of the status bar
    os_read,              \* history: the OS answer of the latest source call
    os_calls,             \* history: <<thread, OS operation>> pairs performed so far
    applied               \* history: source ids dispatched so far, in order

vars == <<pc, cycle, processes, services, performance, idle_queue,
          process_list, process_sel, services_list, services_sel,
          processes_scroll_pos, services_scroll_pos, vadj_process, vadj_services,
          upper_process, upper_services,
          perf_labels, status_bar, os_read, os_calls, applied>>

samplerVars == <<pc, cycle, processes, services, performance>>

\* ViewState and the rendered row stores
viewVars == <<process_list, process_sel, services_list, services_sel,
              processes_scroll_pos, services_scroll_pos, vadj_process, vadj_services,
              upper_process, upper_services>>

uiVars == <<process_list, process_sel, services_list, services_sel,
            processes_scroll_pos, services_scroll_pos, vadj_process, vadj_services,
            upper_process, upper_services, perf_labels, status_bar>>

-----------------------------------------------------------------------------
(* Bounds of the model *)

MaxPid == 2       \* PIDs are 0..MaxPid
MaxRaw == 3       \* longest raw PID listing the OS hands to process_iter
MaxCycles == 2    \* sampling cycles the sampler thread starts
MaxScroll == 1    \* scroll offsets are 0..MaxScroll
MaxLines == 7     \* most lines of a unit listing, the header line included

PIDs == 0..MaxPid
ScrollValues == 0..MaxScroll

-----------------------------------------------------------------------------
(* Python values *)

None == -1          \* Python's None where a PID is expected (PIDs are >= 0)
NoneStr == "<None>" \* Python's None where a service name is expected

\* truth value of `if selected_pid:` : None and 0 are both false
Truthy(x) == x # None /\ x # 0

\* truth value of `if selected_service:` : None and "" are both false
TruthyStr(s) == s # NoneStr /\ s # ""

Min(a, b) == IF a < b THEN a ELSE b

-----------------------------------------------------------------------------
(* Text: str.split('\n'), str.strip(), str.split() *)

\* characters str.strip() and str.split() treat as whitespace
IsSpace(c) == c \in {" ", "\t"}

\* text.split(sep): the pieces between occurrences of sep, empty pieces kept
RECURSIVE SplitOn(_, _, _, _)
SplitOn(text, sep, i, piece) ==
    IF i > Len(text) THEN <<piece>>
    ELSE IF text[i] = sep THEN <<piece>> \o SplitOn(text, sep, i + 1, <<>>)
    ELSE SplitOn(text, sep, i + 1, Append(piece, text[i]))

\* bool(line.strip()): the line holds a character that is not whitespace
NonBlank(line) == \E i \in 1..Len(line) : ~IsSpace(line[i])

\* line.split(): the maximal runs of non-whitespace characters, as strings
RECURSIVE Fields(_, _, _)
Fields(line, i, word) ==
    IF i > Len(line) THEN (IF word = "" THEN <<>> ELSE <<word>>)
    ELSE IF IsSpace(line[i])
         THEN (IF word = "" THEN <<>> ELSE <<word>>) \o Fields(line, i + 1, "")
         ELSE Fields(line, i + 1, word \o line[i])

\* seq[lo:hi] of Python (0-based, hi exclusive)
Slice(seq, lo, hi) == SubSeq(seq, lo + 1, Min(hi, Len(seq)))

-----------------------------------------------------------------------------
(* OS Snapshot Source: get_processes *)

\* the increasing sequence of the members of a finite set of integers
RECURSIVE SortedSeq(_)
SortedSeq(S) ==
    IF S = {} THEN <<>>
    ELSE LET m == CHOOSE x \in S : \A y \in S : x <= y
         IN <<m>> \o SortedSeq(S \ {m})

\* psutil.process_iter(attrs): from the raw PID listing of the OS (raw, which a
\* listing racing with process churn may fill with repeats) it builds a set,
\* drops the processes that vanish while their attributes are read (gone), and
\* yields one Process per remaining PID, sorted by PID
process_iter(raw, gone) ==
    SortedSeq({raw[i] : i \in 1..Len(raw)} \ gone)

\* proc.info of the process with this PID, as the tuple get_processes appends:
\* (name, pid, status, username, cpu_percent, memory_percent)
ProcInfo(pid) ==
    <<IF pid = 0 THEN "kernel_task" ELSE IF pid = 1 THEN "init" ELSE "python3",
      pid, "running", "root", 0, 0>>

\* mutant of get_processes: the loop runs over the raw listing itself
get_processes_raw(raw, gone) ==
    LET kept == SelectSeq(raw, LAMBDA p : p \notin gone)
    IN [i \in 1..Len(kept) |-> ProcInfo(kept[i])]

\* get_processes: one tuple per Process that process_iter yields, in its order
get_processes(raw, gone) ==
    LET procs == process_iter(raw, gone)
    IN [i \in 1..Len(procs) |-> ProcInfo(procs[i])]

\* the PIDs of a list of process tuples (column 1 of the store)
PidsOf(rows) == [i \in 1..Len(rows) |-> rows[i][2]]

-----------------------------------------------------------------------------
(* Service Source: get_services *)

\* the example data of the except branch
Placeholder ==
    << <<"ssh.service", "active", "OpenSSH Server", "1234">>,
       <<"cron.service", "active", "Cron Daemon", "5678">>,
       <<"nginx.service", "active", "Web Server", "9012">> >>

\* the loop body: a record for a non-blank line of at least 4 fields
RECURSIVE ParseLines(_)
ParseLines(lines) ==
    IF lines = <<>> THEN <<>>
    ELSE LET line == Head(lines)
             parts == Fields(line, 1, "")
         IN (IF NonBlank(line) /\ Len(parts) >= 4
             THEN << <<parts[1], parts[4], "System Service", "N/A">> >>
             ELSE <<>>) \o ParseLines(Tail(lines))

\* mutant of get_services: the slice starts at the header line (lines[0:6])
get_services_header(result) ==
    IF result.raises THEN Placeholder
    ELSE ParseLines(Slice(SplitOn(result.stdout, "\n", 1, <<>>), 0, 6))

\* get_services. result is what subprocess.run does: it raises (the binary
\* is absent), or it returns a CompletedProcess with a returncode and the
\* stdout text. The returncode is not read: run() is called without
\* check=True.
get_services(result) ==
    IF result.raises THEN Placeholder
    ELSE ParseLines(Slice(SplitOn(result.stdout, "\n", 1, <<>>), 1, 6))

-----------------------------------------------------------------------------
(* OS Snapshot Source: get_performance_data *)

GiB == 1024 * 1024 * 1024

\* mutant of BytesToGB: rounds to the nearest gigabyte
BytesToGBRounded(b) == (b \div GiB) + (IF 2 * (b % GiB) >= GiB THEN 1 ELSE 0)

\* b // (1024**3)
BytesToGB(b) == b \div GiB

\* datetime.fromtimestamp(t).strftime("%Y-%m-%d %H:%M:%S"): the text of t
strftime(t) == <<"%Y-%m-%d %H:%M:%S", t>>

\* get_performance_data from the psutil readings
get_performance_data(r) ==
    [cpu_percent    |-> r.cpu_percent,
     memory_percent |-> r.memory_percent,
     memory_used    |-> BytesToGB(r.memory_used),
     memory_total   |-> BytesToGB(r.memory_total),
     disk_percent   |-> r.disk_percent,
     disk_used      |-> BytesToGB(r.disk_used),
     disk_total     |-> BytesToGB(r.disk_total),
     boot_time      |-> strftime(r.boot_time)]

-----------------------------------------------------------------------------
(* Gtk.ListStore, Gtk.TreeSelection, Gtk.Adjustment *)

\* mutant of store_clear: the rows are left in the store
store_keep(rows) == rows

\* ListStore.clear(): no row is left (and with the rows, the selection goes)
store_clear(rows) == <<>>

\* mutant of store_extend: every item is put in front of the rows
\* (store.prepend(x))
RECURSIVE store_prepend(_, _)
store_prepend(rows, items) ==
    IF items = <<>> THEN rows
    ELSE store_prepend(<<Head(items)>> \o rows, Tail(items))

\* `for x in items: store.append(x)`
RECURSIVE store_extend(_, _)
store_extend(rows, items) ==
    IF items = <<>> THEN rows
    ELSE store_extend(Append(rows, Head(items)), Tail(items))

\* index of the first row whose column col (1-based) equals key, 0 if none:
\* the row the `for ... if row[c] == key: select_iter; break` loop selects
FirstIndex(rows, col, key) ==
    IF \E i \in 1..Len(rows) : rows[i][col] = key
    THEN CHOOSE i \in 1..Len(rows) :
            /\ rows[i][col] = key
            /\ \A j \in 1..(i - 1) : rows[j][col] # key
    ELSE 0

\* Adjustment.set_value(v): v clamped to the adjustment's range, which is
\* lower = 0 to upper - page_size (upper here)
set_value(v, upper) == IF v < 0 THEN 0 ELSE IF v > upper THEN upper ELSE v

\* upper - page_size the tree view gives its vertical adjustment when it is
\* laid out with these rows: offsets are counted in units of which every row
\* adds one to the range, and an empty list does not scroll
MaxOffset(rows) == Len(rows)

\* mutant of idle_add: the new source is put in front of the waiting ones
idle_add_front(queue, id, args) == <<[id |-> id, args |-> args]>> \o queue

\* GLib.idle_add(callback, *args): a new idle source, behind those of the
\* same priority that are waiting
idle_add(queue, id, args) == Append(queue, [id |-> id, args |-> args])

-----------------------------------------------------------------------------
(* update_ui and update_performance_ui *)

\* selected_pid = process_model[process_iter][1] if process_iter else None
SelectedPid(rows, sel) == IF sel # 0 THEN rows[sel][2] ELSE None

\* selected_service = services_model[services_iter][0] if services_iter else None
SelectedService(rows, sel) == IF sel # 0 THEN rows[sel][1] ELSE NoneStr

\* selection of the processes view after the store was refilled with new_rows:
\* empty after clear(), then the first row with the selected PID, if the PID
\* is true and some row has it
RestoreProcessSelection(rows, sel, new_rows) ==
    LET selected_pid == SelectedPid(rows, sel)
    IN IF Truthy(selected_pid) THEN FirstIndex(new_rows, 2, selected_pid) ELSE 0

\* the same for the services view, by name
RestoreServiceSelection(rows, sel, new_rows) ==
    LET selected_service == SelectedService(rows, sel)
    IN IF TruthyStr(selected_service)
       THEN FirstIndex(new_rows, 1, selected_service) ELSE 0

\* update_performance_ui: the label texts. cpu_count is psutil.cpu_count(),
\* called while the labels are written
update_performance_ui(perf, cpu_count) ==
    [cpu_label  |-> <<"Total CPU Usage", perf.cpu_percent>>,
     mem_label  |-> <<"Used", perf.memory_used, perf.memory_total, perf.memory_percent>>,
     disk_label |-> <<"Used", perf.disk_used, perf.disk_total, perf.disk_percent>>,
     info_label |-> <<"Boot Time", perf.boot_time, "CPU Cores", cpu_count,
                      "Memory Total", perf.memory_total>>]

\* the status bar message update_ui pushes
StatusLine(procs, perf) ==
    <<"Processes", Len(procs), "CPU", perf.cpu_percent, "Memory", perf.memory_percent>>

-----------------------------------------------------------------------------
(* update_ui: what it makes of the view *)

\* ViewState, the row stores and the status bar, as one value
View ==
    [process_list         |-> process_list,
     process_sel          |-> process_sel,
     services_list        |-> services_list,
     services_sel         |-> services_sel,
     processes_scroll_pos |-> processes_scroll_pos,
     services_scroll_pos  |-> services_scroll_pos,
     vadj_process         |-> vadj_process,
     vadj_services        |-> vadj_services,
     upper_process        |-> upper_process,
     upper_services       |-> upper_services,
     status_bar           |-> status_bar]

\* the view update_ui(processes, services, performance) leaves, from the view
\* it finds: both stores refilled, the selections restored,
\* restore_scroll_positions (set_value, then on_*_scroll if the value
\* changed), the status message pushed. The ranges of the adjustments are
\* those of the last layout: the tree views answer the row changes by queueing
\* a resize, which the main loop runs after update_ui has returned
update_ui_view(view, args) ==
    LET procs == args[1]
        servs == args[2]
        perf == args[3]
        new_process_list == store_extend(store_clear(view.process_list), procs)
        new_services_list == store_extend(store_clear(view.services_list), servs)
        new_vadj_process == set_value(view.processes_scroll_pos, view.upper_process)
        new_vadj_services == set_value(view.services_scroll_pos, view.upper_services)
    IN [process_list         |-> new_process_list,
        process_sel          |-> RestoreProcessSelection(view.process_list,
                                     view.process_sel, new_process_list),
        services_list        |-> new_services_list,
        services_sel         |-> RestoreServiceSelection(view.services_list,
                                     view.services_sel, new_services_list),
        processes_scroll_pos |-> IF new_vadj_process # view.vadj_process
                                 THEN new_vadj_process
                                 ELSE view.processes_scroll_pos,
        services_scroll_pos  |-> IF new_vadj_services # view.vadj_services
                                 THEN new_vadj_services
                                 ELSE view.services_scroll_pos,
        vadj_process         |-> new_vadj_process,
        vadj_services        |-> new_vadj_services,
        upper_process        |-> view.upper_process,
        upper_services       |-> view.upper_services,
        status_bar           |-> StatusLine(procs, perf)]

-----------------------------------------------------------------------------
(* What the operating system may answer *)

\* all sequences over S of length at most n
SeqsUpTo(S, n) == UNION {[1..k -> S] : k \in 0..n}

\* raw PID listings: any PIDs in any order, repeats included
RawListings == SeqsUpTo(PIDs, MaxRaw)

\* the raw listings of the threads specification
SampleListings == {<<0, 1>>, <<2, 1, 2>>}

\* lines a unit listing may hold: the text, and the fields it is meant to have
LineSamples ==
    { [text   |-> <<"a", "b", " ", "l", " ", "a", " ", "r">>,
       fields |-> <<"ab", "l", "a", "r">>],
      [text   |-> <<" ", "c", " ", " ", "l", "\t", "f", " ", "d", " ", "x">>,
       fields |-> <<"c", "l", "f", "d", "x">>],
      [text   |-> <<"e", " ", "l">>,
       fields |-> <<"e", "l">>] }

\* the text of a listing: every line followed by a newline
RECURSIVE JoinLines(_)
JoinLines(lines) ==
    IF lines = <<>> THEN <<>>
    ELSE Head(lines).text \o <<"\n">> \o JoinLines(Tail(lines))

\* the unit query: whether the binary is there, and if so the exit status
\* and the lines it prints
Query(raises, returncode, lines) ==
    [raises |-> raises, returncode |-> returncode, lines |-> lines]

\* subprocess.run(['systemctl', ...], capture_output=True, text=True): it
\* raises (no such binary), or returns a CompletedProcess with the exit
\* status and the captured stdout
subprocess_run(query) ==
    [raises |-> query.raises, returncode |-> query.returncode,
     stdout |-> JoinLines(query.lines)]

Absent == Query(TRUE, 0, <<>>)

\* every listing of at most MaxLines lines, with either exit status
AllQueries ==
    {Absent} \cup
    {Query(FALSE, rc, lines) : rc \in {0, 1}, lines \in SeqsUpTo(LineSamples, MaxLines)}

HeaderLine == CHOOSE l \in LineSamples : l.fields = <<"ab", "l", "a", "r">>
UnitLine == CHOOSE l \in LineSamples : l.fields = <<"c", "l", "f", "d", "x">>

\* the queries of the threads specification: a failed query that printed
\* nothing, a listing of one unit
SampleQueries ==
    {Query(FALSE, 1, <<>>), Query(FALSE, 0, <<HeaderLine, UnitLine>>)}

\* byte counts psutil may report
ByteSamples == {0, 1, GiB - 1, GiB, GiB + 1, 2040109465, 2147483647}

\* psutil.cpu_percent, virtual_memory, disk_usage('/') and boot_time
Reading(memory_used, memory_total, disk_used, disk_total) ==
    [cpu_percent |-> 555, memory_percent |-> 500,
     memory_used |-> memory_used, memory_total |-> memory_total,
     disk_percent |-> 999, disk_used |-> disk_used, disk_total |-> disk_total,
     boot_time |-> 0]

AllReadings ==
    {Reading(mu, mt, du, dt) : mu \in ByteSamples, mt \in ByteSamples,
                               du \in ByteSamples, dt \in ByteSamples}

\* the readings of the threads specification
SampleReadings == {Reading(2040109465, 2147483647, GiB - 1, GiB)}

\* psutil.cpu_count()
CpuCounts == {4}

NoPerf == [unset |-> TRUE]
NoLabels == [cpu_label |-> <<>>, mem_label |-> <<>>, disk_label |-> <<>>,
             info_label |-> <<>>]
NoRead == [op |-> "none"]

Call(thread, op) == [thread |-> thread, op |-> op]

\* the OS calls of one whole sampling cycle
CycleCalls ==
    {Call("sampler", op) : op \in {"process_iter", "systemctl", "cpu_percent",
                                   "virtual_memory", "disk_usage", "boot_time"}}

-----------------------------------------------------------------------------
(* State after ModernTaskManager.__init__ *)

Init ==
    /\ pc = "get_processes"
    /\ cycle = 0
    /\ processes = <<>>
    /\ services = <<>>
    /\ performance = NoPerf
    /\ idle_queue = <<>>
    /\ process_list = <<>>
    /\ process_sel = 0
    /\ services_list = <<>>
    /\ services_sel = 0
    /\ processes_scroll_pos = 0
    /\ services_scroll_pos = 0
    /\ vadj_process = 0
    /\ vadj_services = 0
    /\ upper_process = 0
    /\ upper_services = 0
    /\ perf_labels = NoLabels
    /\ status_bar = <<>>
    /\ os_read = NoRead
    /\ os_calls = {}
    /\ applied = <<>>

-----------------------------------------------------------------------------
(* update_thread: the sampler thread *)

\* processes = self.get_processes()
GetProcesses(raw, gone) ==
    /\ pc = "get_processes"
    /\ processes' = get_processes(raw, gone)
    /\ pc' = "get_services"
    /\ os_read' = [op |-> "process_iter", raises |-> FALSE, raw |-> raw]
    /\ os_calls' = os_calls \cup {Call("sampler", "process_iter")}
    /\ UNCHANGED <<cycle, services, performance, idle_queue, applied>>
    /\ UNCHANGED uiVars

\* process_iter raises something the loop body's try does not cover (the
\* listing of /proc fails): nothing in update_thread catches it
GetProcessesRaises ==
    /\ pc = "get_processes"
    /\ pc' = "dead"
    /\ os_read' = [op |-> "process_iter", raises |-> TRUE, raw |-> <<>>]
    /\ os_calls' = os_calls \cup {Call("sampler", "process_iter")}
    /\ UNCHANGED <<cycle, processes, services, performance, idle_queue, applied>>
    /\ UNCHANGED uiVars

\* services = self.get_services()
GetServices(query) ==
    /\ pc = "get_services"
    /\ services' = get_services(subprocess_run(query))
    /\ pc' = "get_performance_data"
    /\ os_read' = [op |-> "systemctl", raises |-> query.raises, query |-> query]
    /\ os_calls' = os_calls \cup {Call("sampler", "systemctl")}
    /\ UNCHANGED <<cycle, processes, performance, idle_queue, applied>>
    /\ UNCHANGED uiVars

\* performance = self.get_performance_data()
GetPerformanceData(reading) ==
    /\ pc = "get_performance_data"
    /\ performance' = get_performance_data(reading)
    /\ pc' = "idle_add"
    /\ os_read' = [op |-> "psutil", raises |-> FALSE, reading |-> reading]
    /\ os_calls' = os_calls \cup {Call("sampler", "cpu_percent"),
                                  Call("sampler", "virtual_memory"),
                                  Call("sampler", "disk_usage"),
                                  Call("sampler", "boot_time")}
    /\ UNCHANGED <<cycle, processes, services, idle_queue, applied>>
    /\ UNCHANGED uiVars

\* a psutil call of get_performance_data raises (disk_usage('/') fails):
\* neither get_performance_data nor update_thread catches it
GetPerformanceDataRaises ==
    /\ pc = "get_performance_data"
    /\ pc' = "dead"
    /\ os_read' = [op |-> "psutil", raises |-> TRUE]
    /\ os_calls' = os_calls \cup {Call("sampler", "cpu_percent"),
                                  Call("sampler", "virtual_memory"),
                                  Call("sampler", "disk_usage")}
    /\ UNCHANGED <<cycle, processes, services, performance, idle_queue, applied>>
    /\ UNCHANGED uiVars

\* mutant of IdleAdd: the sampler thread calls self.update_ui(processes,
\* services, performance) itself
IdleAddDirect ==
    /\ pc = "idle_add"
    /\ LET view == update_ui_view(View, <<processes, services, performance>>)
       IN /\ process_list' = view.process_list
          /\ process_sel' = view.process_sel
          /\ services_list' = view.services_list
          /\ services_sel' = view.services_sel
          /\ processes_scroll_pos' = view.processes_scroll_pos
          /\ services_scroll_pos' = view.services_scroll_pos
          /\ vadj_process' = view.vadj_process
          /\ vadj_services' = view.vadj_services
          /\ status_bar' = view.status_bar
    /\ UNCHANGED <<upper_process, upper_services>>
    /\ cycle' = cycle + 1
    /\ pc' = "sleep"
    /\ processes' = <<>>
    /\ services' = <<>>
    /\ performance' = NoPerf
    /\ os_read' = NoRead
    /\ UNCHANGED <<idle_queue, perf_labels, os_calls, applied>>

\* GLib.idle_add(self.update_ui, processes, services, performance).
\* The three locals are dead from here to their next assignment.
IdleAdd ==
    /\ pc = "idle_add"
    /\ idle_queue' = idle_add(idle_queue, cycle + 1, <<processes, services, performance>>)
    /\ cycle' = cycle + 1
    /\ pc' = "sleep"
    /\ processes' = <<>>
    /\ services' = <<>>
    /\ performance' = NoPerf
    /\ os_read' = NoRead
    /\ UNCHANGED <<os_calls, applied>>
    /\ UNCHANGED uiVars

\* time.sleep(self.update_interval) returns and the loop goes round
Sleep ==
    /\ pc = "sleep"
    /\ cycle < MaxCycles
    /\ pc' = "get_processes"
    /\ UNCHANGED <<cycle, processes, services, performance, idle_queue, os_read,
                   os_calls, applied>>
    /\ UNCHANGED uiVars

-----------------------------------------------------------------------------
(* The GTK main loop: the presentation thread *)

\* the main loop dispatches the oldest idle source: update_ui(processes,
\* services, performance) runs to its end and, returning None, is removed.
\* update_performance_ui reads psutil.cpu_count() on the way.
update_ui ==
    /\ idle_queue # <<>>
    /\ LET source == Head(idle_queue)
           view == update_ui_view(View, source.args)
       IN /\ process_list' = view.process_list
          /\ process_sel' = view.process_sel
          /\ services_list' = view.services_list
          /\ services_sel' = view.services_sel
          /\ processes_scroll_pos' = view.processes_scroll_pos
          /\ services_scroll_pos' = view.services_scroll_pos
          /\ vadj_process' = view.vadj_process
          /\ vadj_services' = view.vadj_services
          /\ status_bar' = view.status_bar
          /\ \E cpu_count \in CpuCounts :
                perf_labels' = update_performance_ui(source.args[3], cpu_count)
          /\ applied' = Append(applied, source.id)
    /\ idle_queue' = Tail(idle_queue)
    /\ os_calls' = os_calls \cup {Call("presentation", "cpu_count")}
    /\ UNCHANGED <<upper_process, upper_services, os_read>>
    /\ UNCHANGED samplerVars

\* the user clicks row i of the processes view (i = 0: the selected row is
\* unselected with Ctrl+click)
select_process(i) ==
    /\ i \in 0..Len(process_list)
    /\ i # process_sel
    /\ process_sel' = i
    /\ UNCHANGED <<process_list, services_list, services_sel, processes_scroll_pos,
                   services_scroll_pos, vadj_process, vadj_services, upper_process,
                   upper_services, perf_labels, status_bar, idle_queue, os_read,
                   os_calls, applied>>
    /\ UNCHANGED samplerVars

\* the user clicks row i of the services view
select_service(i) ==
    /\ i \in 0..Len(services_list)
    /\ i # services_sel
    /\ services_sel' = i
    /\ UNCHANGED <<process_list, process_sel, services_list, processes_scroll_pos,
                   services_scroll_pos, vadj_process, vadj_services, upper_process,
                   upper_services, perf_labels, status_bar, idle_queue, os_read,
                   os_calls, applied>>
    /\ UNCHANGED samplerVars

\* the user scrolls the processes view to v, a value of the adjustment's
\* range: "value-changed" runs on_processes_scroll, which stores
\* adjustment.get_value()
on_processes_scroll(v) ==
    /\ v # vadj_process
    /\ v <= upper_process
    /\ vadj_process' = v
    /\ processes_scroll_pos' = v
    /\ UNCHANGED <<process_list, process_sel, services_list, services_sel,
                   services_scroll_pos, vadj_services, upper_process, upper_services,
                   perf_labels, status_bar, idle_queue, os_read, os_calls, applied>>
    /\ UNCHANGED samplerVars

\* the same for the services view and on_services_scroll
on_services_scroll(v) ==
    /\ v # vadj_services
    /\ v <= upper_services
    /\ vadj_services' = v
    /\ services_scroll_pos' = v
    /\ UNCHANGED <<process_list, process_sel, services_list, services_sel,
                   processes_scroll_pos, vadj_process, upper_process, upper_services,
                   perf_labels, status_bar, idle_queue, os_read, os_calls, applied>>
    /\ UNCHANGED samplerVars

\* the main loop runs the resize a tree view queued when its store changed:
\* the adjustment gets the range of the rows the store holds now and its value
\* is clamped to it; if that changes the value, "value-changed" runs the
\* handler connect_scroll_events connected, which stores the new value
size_allocate(list) ==
    /\ list \in {"processes", "services"}
    /\ IF list = "processes"
       THEN /\ upper_process # MaxOffset(process_list)
            /\ upper_process' = MaxOffset(process_list)
            /\ vadj_process' = set_value(vadj_process, upper_process')
            /\ processes_scroll_pos' = IF vadj_process' # vadj_process
                                       THEN vadj_process'
                                       ELSE processes_scroll_pos
            /\ UNCHANGED <<upper_services, vadj_services, services_scroll_pos>>
       ELSE /\ upper_services # MaxOffset(services_list)
            /\ upper_services' = MaxOffset(services_list)
            /\ vadj_services' = set_value(vadj_services, upper_services')
            /\ services_scroll_pos' = IF vadj_services' # vadj_services
                                      THEN vadj_services'
                                      ELSE services_scroll_pos
            /\ UNCHANGED <<upper_process, vadj_process, processes_scroll_pos>>
    /\ UNCHANGED <<process_list, process_sel, services_list, services_sel,
                   perf_labels, status_bar, idle_queue, os_read, os_calls, applied>>
    /\ UNCHANGED samplerVars

\* on_refresh: a status message, nothing else
on_refresh ==
    /\ status_bar # <<"Refreshing...">>
    /\ status_bar' = <<"Refreshing...">>
    /\ UNCHANGED <<perf_labels, idle_queue, os_read, os_calls, applied>>
    /\ UNCHANGED viewVars
    /\ UNCHANGED samplerVars

\* on_end_process with a row selected: the dialog is answered (ok or not); on
\* OK psutil.Process(pid).terminate() is called, which succeeds (a status
\* message) or raises NoSuchProcess or AccessDenied (an error dialog)
on_end_process(ok, terminated) ==
    /\ process_sel # 0
    /\ ok
    /\ status_bar' = IF terminated
                     THEN <<"Process terminated", process_list[process_sel][1]>>
                     ELSE status_bar
    /\ os_calls' = os_calls \cup {Call("presentation", "terminate")}
    /\ UNCHANGED <<perf_labels, idle_queue, os_read, applied>>
    /\ UNCHANGED viewVars
    /\ UNCHANGED samplerVars

-----------------------------------------------------------------------------
(* The program: both threads, on sample answers of the operating system *)

update_thread ==
    \/ \E raw \in SampleListings : GetProcesses(raw, {})
    \/ GetProcessesRaises
    \/ \E query \in SampleQueries : GetServices(query)
    \/ \E reading \in SampleReadings : GetPerformanceData(reading)
    \/ GetPerformanceDataRaises
    \/ IdleAdd
    \/ Sleep

presentation_thread ==
    \/ update_ui
    \/ \E i \in 0..(MaxPid + 1) : select_process(i)
    \/ \E i \in 0..Len(Placeholder) : select_service(i)
    \/ \E v \in ScrollValues : on_processes_scroll(v)
    \/ \E v \in ScrollValues : on_services_scroll(v)
    \/ \E list \in {"processes", "services"} : size_allocate(list)
    \/ on_refresh
    \/ \E terminated \in BOOLEAN : on_end_process(TRUE, terminated)

Next == update_thread \/ presentation_thread

Spec == Init /\ [][Next]_vars

-----------------------------------------------------------------------------
(* The first sampling cycle, on every answer one source may get *)

\* the first cycle on every raw PID listing, up to its update_ui
NextProcesses ==
    \/ \E raw \in RawListings, gone \in SUBSET PIDs : GetProcesses(raw, gone)
    \/ \E query \in SampleQueries : GetServices(query)
    \/ \E reading \in SampleReadings : GetPerformanceData(reading)
    \/ IdleAdd
    \/ update_ui

SpecProcesses == Init /\ [][NextProcesses]_vars

\* the first cycle up to get_services, on every answer of the unit query
NextServices ==
    \/ GetProcesses(<<1>>, {})
    \/ \E query \in AllQueries : GetServices(query)

SpecServices == Init /\ [][NextServices]_vars

\* the first cycle up to get_performance_data, on every reading
NextPerformance ==
    \/ GetProcesses(<<1>>, {})
    \/ GetServices(Absent)
    \/ \E reading \in AllReadings : GetPerformanceData(reading)

SpecPerformance == Init /\ [][NextPerformance]_vars

-----------------------------------------------------------------------------
(* update_ui on every view it may find and every snapshot it may be given *)

\* what get_processes may return
ProcessLists == {get_processes(raw, gone) : raw \in RawListings, gone \in SUBSET PIDs}

\* what get_services may return
ServiceLists ==
    {get_services(subprocess_run(query)) : query \in SampleQueries \cup {Absent}}

\* The state when the second snapshot waits in the idle queue: the first one
\* was applied and laid out, the user has since selected rows and scrolled,
\* the sampler thread has posted the second one and sleeps.
InitReconciler ==
    /\ pc = "sleep"
    /\ cycle = 2
    /\ processes = <<>>
    /\ services = <<>>
    /\ performance = NoPerf
    /\ process_list \in ProcessLists
    /\ process_sel \in 0..Len(process_list)
    /\ services_list \in ServiceLists
    /\ services_sel \in 0..Len(services_list)
    /\ upper_process = MaxOffset(process_list)
    /\ upper_services = MaxOffset(services_list)
    /\ processes_scroll_pos \in {v \in ScrollValues : v <= upper_process}
    /\ services_scroll_pos \in {v \in ScrollValues : v <= upper_services}
    /\ vadj_process = processes_scroll_pos
    /\ vadj_services = services_scroll_pos
    /\ \E reading \in SampleReadings :
          /\ perf_labels \in {update_performance_ui(get_performance_data(reading), n) :
                                n \in CpuCounts}
          /\ status_bar = StatusLine(process_list, get_performance_data(reading))
          /\ idle_queue \in
                {idle_add(<<>>, 2, <<procs, servs, get_performance_data(reading)>>) :
                    procs \in ProcessLists, servs \in ServiceLists}
    /\ os_read = NoRead
    /\ os_calls = CycleCalls \cup {Call("presentation", "cpu_count")}
    /\ applied = <<1>>

\* update_ui, and the layout of the lists it refilled
NextReconciler ==
    \/ update_ui
    \/ \E list \in {"processes", "services"} : size_allocate(list)

SpecReconciler == InitReconciler /\ [][NextReconciler]_vars

-----------------------------------------------------------------------------
(* Claims *)

\* the elements of a sequence are pairwise different
Distinct(seq) == \A i, j \in 1..Len(seq) : i # j => seq[i] # seq[j]

\* C1: if the row with PID P is selected when update_ui starts, then after
\* update_ui the selected row is the row with PID P when P is in the new
\* process list, and nothing is selected when it is not, for every PID P.
\* (Checked under Spec.)
C1_SelectionRestored ==
    [][update_ui =>
        LET P == SelectedPid(process_list, process_sel)
            new_pids == PidsOf(Head(idle_queue).args[1])
        IN P # None =>
             IF \E i \in 1..Len(new_pids) : new_pids[i] = P
             THEN process_sel' # 0 /\ process_list'[process_sel'][2] = P
             ELSE process_sel' = 0]_vars

\* C2: when the unit query fails (subprocess.run raises, or the query exits
\* with a non-zero status), get_services returns exactly the placeholder
\* set. (Checked under SpecServices.)
C2_FallbackOnFailure ==
    (os_read.op = "systemctl" /\ (os_read.query.raises \/ os_read.query.returncode # 0))
        => services = Placeholder

\* C3: no snapshot holds two records of the same PID, whatever the raw PID
\* listing repeats: not the list get_processes returns, not a posted
\* snapshot, not the rows update_ui stores. (Checked under SpecProcesses.)
C3_UniquePids ==
    /\ Distinct(PidsOf(processes))
    /\ \A i \in 1..Len(idle_queue) : Distinct(PidsOf(idle_queue[i].args[1]))
    /\ Distinct(PidsOf(process_list))

\* C3 witness: get_processes has returned a non-empty list from a raw listing
\* that repeats a PID
C3_RepeatedPidRead ==
    /\ pc = "get_services"
    /\ os_read.op = "process_iter"
    /\ ~Distinct(os_read.raw)
    /\ Len(processes) >= 2

\* C4: no failure of a data source ends the sampler thread. (Checked under
\* Spec.)
C4_NoFatalError == pc # "dead"

\* the records the listing's lines stand for: one for each of the first five
\* lines after the header that has at least four fields, in order
ExpectedRecords(lines) ==
    LET data == SubSeq(lines, 2, Min(6, Len(lines)))
        valid == SelectSeq(data, LAMBDA l : Len(l.fields) >= 4)
    IN [i \in 1..Len(valid) |->
          <<valid[i].fields[1], valid[i].fields[4], "System Service", "N/A">>]

\* C5: from a listing of a header line and data lines, get_services returns,
\* in order, one record (field 0, field 3) for each of the first 5 data lines
\* with at least 4 fields, and nothing else: no short or blank line, not the
\* header, no line after the fifth, never more than 5 records. (Checked
\* under SpecServices.)
C5_ParsedRecords ==
    (os_read.op = "systemctl" /\ ~os_read.query.raises) =>
        /\ services = ExpectedRecords(os_read.query.lines)
        /\ Len(services) <= 5

\* C5 witness: a listing of a header and six data lines, the third of them
\* short and the sixth with four fields, has given four records
C5_SixDataLines ==
    /\ os_read.op = "systemctl"
    /\ ~os_read.query.raises
    /\ Len(os_read.query.lines) = 7
    /\ Len(os_read.query.lines[1].fields) >= 4
    /\ Len(os_read.query.lines[4].fields) < 4
    /\ Len(os_read.query.lines[7].fields) >= 4
    /\ Len(services) = 4

\* b less g times 2^30
RECURSIVE LessGiB(_, _)
LessGiB(b, g) == IF g <= 0 THEN b ELSE LessGiB(b - GiB, g - 1)

\* g is the whole number of 2^30 in b: g * 2^30 <= b < (g + 1) * 2^30
IsFloorGiB(b, g) == g >= 0 /\ LessGiB(b, g) >= 0 /\ LessGiB(b, g) < GiB

\* C6: each of memory_used, memory_total, disk_used and disk_total is the
\* floor of its byte count over 2^30, never the rounded-up value. (Checked
\* under SpecPerformance.)
C6_Truncates ==
    (os_read.op = "psutil" /\ ~os_read.raises) =>
        /\ IsFloorGiB(os_read.reading.memory_used, performance.memory_used)
        /\ IsFloorGiB(os_read.reading.memory_total, performance.memory_total)
        /\ IsFloorGiB(os_read.reading.disk_used, performance.disk_used)
        /\ IsFloorGiB(os_read.reading.disk_total, performance.disk_total)

\* C6 witness: 1.9 GiB of used memory is reported as 1
C6_OnePointNineGiB ==
    /\ os_read.op = "psutil"
    /\ ~os_read.raises
    /\ os_read.reading.memory_used = 2040109465
    /\ performance.memory_used = 1

\* C7: update_ui applied again with the same snapshot, right after it was
\* applied, leaves the rows, the selections, the scroll offsets and the
\* status line as they are. (Checked under SpecReconciler.)
C7_Idempotent ==
    [][update_ui => update_ui_view(View', Head(idle_queue).args) = View']_vars

\* C7 witness: update_ui has run on a view with a selected row and a scrolled
\* list, and the row is still selected
C7_AppliedOnUsedView ==
    /\ applied = <<1, 2>>
    /\ process_sel # 0
    /\ services_sel # 0
    /\ processes_scroll_pos # 0

\* C8: snapshots are applied one at a time in the order they were posted
\* (the source ids dispatched are 1, 2, ... and the waiting ones follow, in
\* order), and the sampler thread is never held up by a snapshot that waits:
\* it can post and can leave its sleep whatever the idle queue holds.
\* (Checked under Spec.)
C8_InOrderNoWait ==
    /\ applied = [i \in 1..Len(applied) |-> i]
    /\ \A i \in 1..Len(idle_queue) : idle_queue[i].id = Len(applied) + i
    /\ Len(applied) + Len(idle_queue) = cycle
    /\ pc = "idle_add" => ENABLED IdleAdd
    /\ (pc = "sleep" /\ cycle < MaxCycles) => ENABLED Sleep

\* C8 witness: two snapshots wait in the idle queue, the second posted while
\* the first had not been applied
C8_TwoWaiting == Len(idle_queue) >= 2

\* C9: a step of the sampler thread changes nothing of the view (selection,
\* scroll offsets, row stores) or of the other widgets, and does nothing to
\* the idle queue but append one source; the view changes only in steps of
\* the presentation thread. (Checked under Spec.)
C9_SingleWriter ==
    [][/\ uiVars' # uiVars => ~update_thread
       /\ ~(\/ idle_queue' = idle_queue
            \/ /\ Len(idle_queue') = Len(idle_queue) + 1
               /\ SubSeq(idle_queue', 1, Len(idle_queue)) = idle_queue) => ~update_thread
       /\ viewVars' # viewVars => presentation_thread]_vars

\* C9 witness: the sampler thread has posted a second snapshot while the view
\* holds a selection and a scroll offset of the user
C9_PostedBesideUserState ==
    /\ cycle = 2
    /\ pc = "sleep"
    /\ process_sel # 0
    /\ processes_scroll_pos # 0
    /\ services_scroll_pos # 0

\* the operations that read the state of the operating system
OSQueries ==
    {"process_iter", "systemctl", "cpu_percent", "virtual_memory", "disk_usage",
     "boot_time", "cpu_count"}

\* C10: every query of the operating system is made by the sampler thread,
\* none by a step of the presentation thread. (Checked under Spec.)
C10_QueriesOnSamplerOnly ==
    \A c \in os_calls : c.op \in OSQueries => c.thread = "sampler"

====
